---- MODULE Spec2Model ----
(***************************************************************************)
(* Model of the Doc-Chat backend (src/app.py): a Flask application with    *)
(* three request handlers (upload, process, ask) sharing two process-wide  *)
(* variables, uploaded_filename and document_text.  Requests are handled   *)
(* one at a time, so every handler is one atomic action.  Strings whose    *)
(* characters matter (file names, texts, questions, prompts) are sequences *)
(* of one-character strings; fixed messages are TLA+ strings.              *)
(***************************************************************************)
EXTENDS Integers, Sequences, FiniteSets, TLC

\* ---------------------------------------------------------------- bounds
MaxUploads == 2      \* number of Upload requests in one behaviour
Extra == 100         \* how far the long sample texts exceed a limit
WordLen == 7         \* distance between blanks in the sample texts

\* ------------------------------------------------------ program constants
ContentLimit == 500  \* document_text[:500]
PromptLimit == 2000  \* context[:2000]

\* ------------------------------------------------------- string helpers
Whitespace == {" ", "\n"}

MinOf(a, b) == IF a < b THEN a ELSE b

\* s[:n]
Take(s, n) == SubSeq(s, 1, MinOf(n, Len(s)))

\* s.strip()
Strip(s) ==
    IF \A i \in 1..Len(s) : s[i] \in Whitespace THEN << >>
    ELSE LET lo == CHOOSE i \in 1..Len(s) :
                      s[i] \notin Whitespace /\ \A j \in 1..(i-1) : s[j] \in Whitespace
             hi == CHOOSE i \in 1..Len(s) :
                      s[i] \notin Whitespace /\ \A j \in (i+1)..Len(s) : s[j] \in Whitespace
         IN SubSeq(s, lo, hi)

\* len(s.split()): the number of maximal runs of non-whitespace characters
WordCount(s) ==
    Cardinality({i \in 1..Len(s) :
                    s[i] \notin Whitespace /\ (i = 1 \/ s[i-1] \in Whitespace)})

\* s.endswith(suffix)
EndsWith(s, suffix) ==
    /\ Len(s) >= Len(suffix)
    /\ SubSeq(s, Len(s) - Len(suffix) + 1, Len(s)) = suffix

RECURSIVE Concat(_)
Concat(ss) == IF ss = << >> THEN << >> ELSE Head(ss) \o Concat(Tail(ss))

\* sep.join(parts)
RECURSIVE Join(_, _)
Join(sep, parts) ==
    IF parts = << >> THEN << >>
    ELSE IF Len(parts) = 1 THEN parts[1]
    ELSE parts[1] \o sep \o Join(sep, Tail(parts))

\* ------------------------------------------------------- secure_filename
SafeChars == {"a", "b", "c", "d", "e", "f", "g", "l", "o", "p", "s", "t", "v", "x",
              "D", "F", "P", "_", ".", "-"}

\* "_".join(name.split()) after every "/" became a blank; characters outside
\* [A-Za-z0-9_.-] are dropped; leading and trailing "." and "_" are stripped.
SecureFilename(name) ==
    LET spaced == [i \in 1..Len(name) |-> IF name[i] = "/" THEN " " ELSE name[i]]
        body   == Strip(spaced)
        joined == Concat([i \in 1..Len(body) |->
                     IF body[i] \notin Whitespace THEN <<body[i]>>
                     ELSE IF body[i-1] \notin Whitespace THEN <<"_">>
                     ELSE << >>])
        ascii  == SelectSeq(joined, LAMBDA c : c \in SafeChars)
        edge   == {".", "_"}
    IN IF \A i \in 1..Len(ascii) : ascii[i] \in edge THEN << >>
       ELSE LET lo == CHOOSE i \in 1..Len(ascii) :
                         ascii[i] \notin edge /\ \A j \in 1..(i-1) : ascii[j] \in edge
                hi == CHOOSE i \in 1..Len(ascii) :
                         ascii[i] \notin edge /\ \A j \in (i+1)..Len(ascii) : ascii[j] \in edge
            IN SubSeq(ascii, lo, hi)

UPLOAD_FOLDER == <<"u", "p", "l", "o", "a", "d">>

\* os.path.join(app.config["UPLOAD_FOLDER"], filename)
FilePath(filename) == UPLOAD_FOLDER \o <<"/">> \o filename

\* ------------------------------------------------------------ extraction
\* What a parsing library finds in a saved file: either it raises (ok = FALSE,
\* err = str(e)) or it yields the pages / paragraphs / table lines in order.
Digit == <<"0", "1", "2", "3", "4", "5", "6", "7", "8", "9">>

\* n characters of position-dependent content with a blank every WordLen
Sample(n) ==
    [i \in 1..n |-> IF i % WordLen = 0 THEN " " ELSE Digit[(i % 10) + 1]] \o << >>

Errors == {<< >>, <<"b", "a", "d">>}

Docs ==
    << [ok |-> FALSE, parts |-> << >>, err |-> <<"b", "a", "d">>],
       [ok |-> FALSE, parts |-> << >>, err |-> << >>],
       [ok |-> TRUE,  parts |-> << >>, err |-> << >>],
       [ok |-> TRUE,  parts |-> << <<" ">> >>, err |-> << >>],
       [ok |-> TRUE,  parts |-> << <<"a", " ", "b">> >>, err |-> << >>],
       [ok |-> TRUE,  parts |-> << <<"a", " ", "b">>, <<"c">> >>, err |-> << >>],
       [ok |-> TRUE,  parts |-> << Sample(ContentLimit + Extra) >>, err |-> << >>],
       [ok |-> TRUE,  parts |-> << Sample(PromptLimit + Extra) >>, err |-> << >>] >>

Returned(t) == [raised |-> FALSE, text |-> t, error |-> << >>]
Raised(e) == [raised |-> TRUE, text |-> << >>, error |-> e]

\* every page's text followed by a newline
extract_text_from_pdf(doc) ==
    IF ~doc.ok THEN Raised(doc.err)
    ELSE Returned(Concat([i \in 1..Len(doc.parts) |-> doc.parts[i] \o <<"\n">>]))

\* the paragraphs joined by newlines
extract_text_from_docx(doc) ==
    IF ~doc.ok THEN Raised(doc.err)
    ELSE Returned(Join(<<"\n">>, doc.parts))

\* df.to_string(index=False): the table's lines, or pandas' text for an
\* empty frame
to_string(parts) ==
    IF parts = << >> THEN <<"E", "m", "p", "t", "y", " ", "D", "a", "t", "a", "F", "r", "a", "m", "e">>
    ELSE Join(<<"\n">>, parts)

CsvError == <<"E", "r", "r", "o", "r", " ", "r", "e", "a", "d", "i", "n", "g", " ", "C", "S", "V", ":", " ">>
ExcelError == <<"E", "r", "r", "o", "r", " ", "r", "e", "a", "d", "i", "n", "g", " ", "E", "x", "c", "e", "l", " ", "f", "i", "l", "e", ":", " ">>

\* variant: the reader's exception is not caught
extract_text_from_csv_Raises(doc) ==
    IF ~doc.ok THEN Raised(doc.err)
    ELSE Returned(to_string(doc.parts))

extract_text_from_csv(doc) ==
    IF ~doc.ok THEN Returned(CsvError \o doc.err)
    ELSE Returned(to_string(doc.parts))

extract_text_from_excel(doc) ==
    IF ~doc.ok THEN Returned(ExcelError \o doc.err)
    ELSE Returned(to_string(doc.parts))

Pdf == <<".", "p", "d", "f">>
Docx == <<".", "d", "o", "c", "x">>
Csv == <<".", "c", "s", "v">>
Xlsx == <<".", "x", "l", "s", "x">>
Xls == <<".", "x", "l", "s">>

\* TRUE iff extract_text opens the file at all
Supported(file_path) ==
    \E suffix \in {Pdf, Docx, Csv, Xlsx, Xls} : EndsWith(file_path, suffix)

extract_text(file_path, doc) ==
    IF EndsWith(file_path, Pdf) THEN extract_text_from_pdf(doc)
    ELSE IF EndsWith(file_path, Docx) THEN extract_text_from_docx(doc)
    ELSE IF EndsWith(file_path, Csv) THEN extract_text_from_csv(doc)
    ELSE IF EndsWith(file_path, Xlsx) \/ EndsWith(file_path, Xls)
         THEN extract_text_from_excel(doc)
    ELSE Returned(<< >>)

\* ---------------------------------------------------------------- inputs
FileNames ==
    { << >>,
      <<"a", ".", "p", "d", "f">>,
      <<"b", ".", "d", "o", "c", "x">>,
      <<"c", ".", "c", "s", "v">>,
      <<"d", ".", "x", "l", "s", "x">>,
      <<"e", ".", "x", "l", "s">>,
      <<"f", ".", "t", "x", "t">>,
      <<"a", " ", "b", ".", "p", "d", "f">>,
      <<"/", ".", ".">>,
      <<"g", ".", "P", "D", "F">> }

Questions ==
    { << >>, <<" ", " ">>, <<" ", "a", " ", "b", " ">>, <<"s", "o", "?">> }

Answers == { <<"o", "k">> }

\* ----------------------------------------------------------------- state
VARIABLES
    uploaded_filename,  \* global uploaded_filename
    document_text,      \* global document_text
    uploads,            \* number of Upload requests handled so far
    nameFrom,           \* history: the Upload request that wrote uploaded_filename (0: none)
    textFrom,           \* history: the Upload request that wrote document_text (0: none)
    okUploads,          \* history: number of Upload requests answered with 200
    lastUpload,         \* history: status of the most recent Upload request (0: none)
    request,            \* the request handled last
    env,                \* what the disk, the parsers and the completion service did in it
    response,           \* the response to it
    prompt,             \* the user message sent to the completion service in it
    calls               \* number of completion-service calls made in it

vars == <<uploaded_filename, document_text, uploads, nameFrom, textFrom,
          okUploads, lastUpload, request, env, response, prompt, calls>>

Request(op, hasFile, filename, body, hasQuestion, question) ==
    [op |-> op, hasFile |-> hasFile, filename |-> filename,
     body |-> body, hasQuestion |-> hasQuestion, question |-> question]

NoRequest == Request("none", FALSE, << >>, "none", FALSE, << >>)

\* save: "none" (not attempted), "ok", "error"; doc: index in Docs of what the
\* parser met (0: no parser ran); svc: "none" (not called), "ok", "error"
Env(save, doc, svc) == [save |-> save, doc |-> doc, svc |-> svc]

\* jsonify(...), status
Response(status, message, redirect, error, content, word_count, question, answer) ==
    [status |-> status, message |-> message, redirect |-> redirect, error |-> error,
     content |-> content, word_count |-> word_count,
     question |-> question, answer |-> answer]

Message(status, message) ==
    Response(status, message, "", << >>, << >>, -1, << >>, << >>)

NoResponse == Message(0, "")

Init ==
    /\ uploaded_filename = << >>
    /\ document_text = << >>
    /\ uploads = 0
    /\ nameFrom = 0
    /\ textFrom = 0
    /\ okUploads = 0
    /\ lastUpload = 0
    /\ request = NoRequest
    /\ env = Env("none", 0, "none")
    /\ response = NoResponse
    /\ prompt = << >>
    /\ calls = 0

\* --------------------------------------------------------------- /upload
\* variant: the extracted text is appended to the text already stored
NewDocumentText_Append(previous, extracted) == previous \o extracted

\* document_text = extract_text(file_path)
NewDocumentText(previous, extracted) == extracted

\* file.save(file_path): the target is the upload directory itself when the
\* sanitized name is empty, and the disk may fail on any other name
SaveOutcomes(filename) ==
    IF filename = << >> THEN {Raised(e) : e \in Errors}
    ELSE {Returned(<< >>)} \cup {Raised(e) : e \in Errors}

\* the files a reader can meet at file_path; 0 when no reader opens it
OpenedDocs(file_path) ==
    IF Supported(file_path) THEN 1..Len(Docs) ELSE {0}

UploadReplies(status, message, redirect, error) ==
    /\ response' = Response(status, message, redirect, error, << >>, -1, << >>, << >>)
    /\ prompt' = << >>
    /\ calls' = 0
    /\ okUploads' = IF status = 200 THEN okUploads + 1 ELSE okUploads
    /\ lastUpload' = status

upload_file ==
    /\ uploads < MaxUploads
    /\ uploads' = uploads + 1
    /\ \E hasFile \in BOOLEAN, name \in FileNames :
        /\ hasFile \/ name = << >>
        /\ request' = Request("upload", hasFile, name, "none", FALSE, << >>)
        /\ IF ~hasFile THEN
              /\ UploadReplies(400, "No file uploaded", "", << >>)
              /\ env' = Env("none", 0, "none")
              /\ UNCHANGED <<uploaded_filename, document_text, nameFrom, textFrom>>
           ELSE IF name = << >> THEN
              /\ UploadReplies(400, "No selected file", "", << >>)
              /\ env' = Env("none", 0, "none")
              /\ UNCHANGED <<uploaded_filename, document_text, nameFrom, textFrom>>
           ELSE
              LET filename == SecureFilename(name)
                  file_path == FilePath(filename)
              IN \E saved \in SaveOutcomes(filename) :
                   IF saved.raised THEN
                      /\ UploadReplies(500, "File upload failed", "", saved.error)
                      /\ env' = Env("error", 0, "none")
                      /\ UNCHANGED <<uploaded_filename, document_text, nameFrom, textFrom>>
                   ELSE
                      /\ uploaded_filename' = filename
                      /\ nameFrom' = uploads'
                      /\ \E d \in OpenedDocs(file_path) :
                           LET extracted == extract_text(file_path, Docs[d])
                           IN /\ env' = Env("ok", d, "none")
                              /\ IF extracted.raised THEN
                                    /\ UploadReplies(500, "File upload failed", "", extracted.error)
                                    /\ UNCHANGED <<document_text, textFrom>>
                                 ELSE
                                    /\ document_text' = NewDocumentText(document_text, extracted.text)
                                    /\ textFrom' = uploads'
                                    /\ IF Strip(document_text') # << >> THEN
                                          UploadReplies(200, "File uploaded successfully",
                                                        "process.html", << >>)
                                       ELSE
                                          UploadReplies(400, "File uploaded but no readable content found",
                                                        "", << >>)

\* -------------------------------------------------------------- /process
\* variant: the excerpt is not cut
Excerpt_Whole(text) == text

\* document_text[:500]
Excerpt(text) == Take(text, ContentLimit)

process_file ==
    /\ request' = Request("process", FALSE, << >>, "none", FALSE, << >>)
    /\ env' = Env("none", 0, "none")
    /\ prompt' = << >>
    /\ calls' = 0
    /\ IF document_text = << >> THEN
          response' = Message(400, "No document analyzed yet")
       ELSE
          response' = Response(200, "Analysis successful! Word count: ", "", << >>,
                               Excerpt(document_text), WordCount(document_text),
                               << >>, << >>)
    /\ UNCHANGED <<uploaded_filename, document_text, uploads, nameFrom, textFrom,
                   okUploads, lastUpload>>

\* ------------------------------------------------------------------ /ask
DocumentLabel == <<"D", "o", "c", "u", "m", "e", "n", "t", ":", " ">>
QuestionLabel == <<".", ".", ".", "\n", "\n", "Q", "u", "e", "s", "t", "i", "o", "n", ":", " ">>
GptError == <<"E", "r", "r", "o", "r", " ", "q", "u", "e", "r", "y", "i", "n", "g", " ", "G", "P", "T", "-", "4", ":", " ">>

\* variant: the whole context goes into the prompt
PromptContext_Whole(context) == context

\* context[:2000]
PromptContext(context) == Take(context, PromptLimit)

\* f"Document: {context[:2000]}...\n\nQuestion: {question}"
UserMessage(question, context) ==
    DocumentLabel \o PromptContext(context) \o QuestionLabel \o question

\* What the completion service does with one request
SvcOutcomes == {Returned(a) : a \in Answers} \cup {Raised(e) : e \in Errors}

\* variant: the service's exception is not caught
query_gpt4_Raises(question, context, svc) ==
    IF svc.raised THEN Raised(svc.error)
    ELSE Returned(svc.text)

\* the value query_gpt4 returns; a raised result is an exception that escapes
query_gpt4(question, context, svc) ==
    IF svc.raised THEN Returned(GptError \o svc.error)
    ELSE Returned(svc.text)

\* variant: the question is not stripped
QuestionOf_Unstripped(hasQuestion, question) ==
    IF hasQuestion THEN question ELSE << >>

\* data.get("question", "").strip()
QuestionOf(hasQuestion, question) ==
    Strip(IF hasQuestion THEN question ELSE << >>)

\* Flask's reply when request.json cannot produce a JSON object
BadBodyStatuses == {400, 415, 500}

ask_question ==
    /\ \E body \in {"json", "malformed"}, hasQuestion \in BOOLEAN, q \in Questions :
        /\ hasQuestion \/ q = << >>
        /\ (body = "malformed") => ~hasQuestion
        /\ request' = Request("ask", FALSE, << >>, body, hasQuestion, q)
        /\ IF document_text = << >> THEN
              /\ response' = Message(400, "No document analyzed yet")
              /\ env' = Env("none", 0, "none")
              /\ prompt' = << >>
              /\ calls' = 0
           ELSE IF body = "malformed" THEN
              /\ \E status \in BadBodyStatuses : response' = Message(status, "")
              /\ env' = Env("none", 0, "none")
              /\ prompt' = << >>
              /\ calls' = 0
           ELSE
              LET question == QuestionOf(hasQuestion, q)
              IN IF question = << >> THEN
                    /\ response' = Message(400, "Please ask a question")
                    /\ env' = Env("none", 0, "none")
                    /\ prompt' = << >>
                    /\ calls' = 0
                 ELSE
                    \E svc \in SvcOutcomes :
                       LET answer == query_gpt4(question, document_text, svc)
                       IN /\ env' = Env("none", 0, IF svc.raised THEN "error" ELSE "ok")
                          /\ prompt' = UserMessage(question, document_text)
                          /\ calls' = 1
                          /\ IF answer.raised THEN
                                response' = Response(500, "", "", answer.error,
                                                     << >>, -1, << >>, << >>)
                             ELSE
                                response' = Response(200, "", "", << >>, << >>, -1,
                                                     question, answer.text)
    /\ UNCHANGED <<uploaded_filename, document_text, uploads, nameFrom, textFrom,
                   okUploads, lastUpload>>

Next == upload_file \/ process_file \/ ask_question

Spec == Init /\ [][Next]_vars

\* ============================================================ properties
Store == <<uploaded_filename, document_text>>

\* the step just taken handled an Upload / an Analyze / an Ask request
UploadStep == uploads' = uploads + 1
ProcessStep == uploads' = uploads /\ request'.op = "process"
AskStep == uploads' = uploads /\ request'.op = "ask"

\* the path an Upload request's file was saved under
PathOf(req) == FilePath(SecureFilename(req.filename))

Blank(s) == \A i \in 1..Len(s) : s[i] \in Whitespace

\* the text extract_text returned in the Upload request handled last
ExtractedText == extract_text(PathOf(request), Docs[env.doc]).text

\* C1: an Upload that does not answer 200 leaves the stored file name and the
\* stored text exactly as they were before the request.
C1_NonOkUploadKeepsStore ==
    [][(UploadStep /\ response'.status # 200) => UNCHANGED Store]_vars

\* C2: an Ask with a JSON body handled while no Upload has answered 200 yet
\* is answered 400, whatever its question, and does not call the completion
\* service.
C2_AskBeforeOkUpload ==
    (request.op = "ask" /\ request.body = "json" /\ okUploads = 0)
        => (response.status = 400 /\ calls = 0)

\* C3: between requests the stored file name and the stored text are both
\* initial or were both written by the same Upload request.
C3_NameAndTextSameUpload == nameFrom = textFrom

\* C4: after an Upload answered 200 the stored text is exactly the text
\* extracted in that request, and an Analyze that follows it computes its
\* excerpt and its word count from that text alone.
C4_OkUploadReplacesText ==
    [][ /\ (UploadStep /\ response'.status = 200)
            => document_text' = extract_text(PathOf(request'), Docs[env'.doc]).text
        /\ (ProcessStep /\ request.op = "upload" /\ response.status = 200)
            => /\ response'.status = 200
               /\ response'.content = SubSeq(ExtractedText, 1, MinOf(ContentLimit, Len(ExtractedText)))
               /\ response'.word_count = WordCount(ExtractedText) ]_vars

C4_Witness ==
    /\ okUploads = 2
    /\ request.op = "process"
    /\ response.status = 200
    /\ textFrom = 2
    /\ document_text = <<"a", " ", "b">>
    /\ response.word_count = 2

\* C5: when the completion-service call of an Ask fails, the response is 200
\* with an answer that is the error text, the service was called once, and
\* the Document Store is unchanged.
C5_ServiceFailureIs200 ==
    [][(AskStep /\ env'.svc = "error")
         => /\ response'.status = 200
            /\ \E e \in Errors : response'.answer = GptError \o e
            /\ calls' = 1
            /\ UNCHANGED Store]_vars

C5_Witness ==
    /\ request.op = "ask"
    /\ env.svc = "error"
    /\ response.status = 200
    /\ response.answer = GptError \o <<"b", "a", "d">>

C7_Analyze ==
    [][ProcessStep
         => /\ UNCHANGED Store
            /\ IF document_text = << >> THEN response'.status = 400
               ELSE /\ response'.status = 200
                    /\ response'.content =
                         [i \in 1..MinOf(ContentLimit, Len(document_text)) |-> document_text[i]]
                    /\ response'.word_count = WordCount(document_text) ]_vars

C7_Witness ==
    /\ request.op = "process"
    /\ response.status = 200
    /\ Len(document_text) = ContentLimit + Extra
    /\ Len(response.content) = ContentLimit
    /\ response.word_count > WordCount(response.content)

\* C8: in every Ask that calls the completion service the document part of
\* the prompt is the prefix of the stored text of length
\* min(2000, length of the stored text), and nothing else of the stored text.
C8_PromptPrefix ==
    [][(AskStep /\ calls' = 1)
         => LET n == MinOf(PromptLimit, Len(document_text))
            IN prompt' = DocumentLabel \o [i \in 1..n |-> document_text[i]]
                           \o QuestionLabel \o response'.question ]_vars

C8_Witness ==
    /\ request.op = "ask"
    /\ calls = 1
    /\ Len(document_text) > PromptLimit
    /\ Len(prompt) = Len(DocumentLabel) + PromptLimit + Len(QuestionLabel) + Len(response.question)

\* C9: an Upload is answered 400 without a file field, with an empty file
\* name or when the extracted text is empty or all whitespace, 200 with the
\* success message and the redirect hint when the extracted text has a
\* non-whitespace character, 500 with the error detail when saving or
\* extracting raises; and the Document Store is replaced by the request if
\* and only if the answer is 200.
C9_UploadStatuses ==
    [][UploadStep
         => LET req == request'
                path == PathOf(req)
                ex == extract_text(path, Docs[env'.doc])
                status == response'.status
            IN /\ IF ~req.hasFile \/ req.filename = << >> THEN status = 400
                  ELSE IF env'.save = "error" THEN status = 500
                  ELSE IF ~Supported(path) THEN status = 400
                  ELSE IF ex.raised THEN status = 500 /\ response'.error = ex.error
                  ELSE IF Blank(ex.text) THEN status = 400
                  ELSE /\ status = 200
                       /\ response'.message = "File uploaded successfully"
                       /\ response'.redirect = "process.html"
               /\ (status = 200) <=> (nameFrom' = uploads' \/ textFrom' = uploads') ]_vars

\* C10: an Upload whose saved CSV or Excel file fails to parse is answered
\* 200 "File uploaded successfully" and the reader's error string becomes the
\* stored text; an Upload is answered 500 only when saving failed or the PDF
\* or DOCX reader raised.
C10_TableParseFailure ==
    [][UploadStep
         => LET path == PathOf(request')
                table == EndsWith(path, Csv) \/ EndsWith(path, Xlsx) \/ EndsWith(path, Xls)
                paged == EndsWith(path, Pdf) \/ EndsWith(path, Docx)
            IN /\ (env'.save = "ok" /\ table /\ env'.doc # 0 /\ ~Docs[env'.doc].ok)
                    => /\ response'.status = 200
                       /\ response'.message = "File uploaded successfully"
                       /\ document_text' # << >>
                       /\ document_text' =
                            (IF EndsWith(path, Csv) THEN CsvError ELSE ExcelError)
                               \o Docs[env'.doc].err
               /\ response'.status = 500
                    => \/ env'.save = "error"
                       \/ env'.save = "ok" /\ paged /\ ~Docs[env'.doc].ok ]_vars

C10_Witness ==
    /\ request.op = "upload"
    /\ request.filename = <<"c", ".", "c", "s", "v">>
    /\ env.doc = 1
    /\ response.status = 200
    /\ document_text = CsvError \o <<"b", "a", "d">>

====
